---- MODULE Spec2Model ----
(***************************************************************************)
(* Model of the anchor generator (src/src/anchors.py) and of the RetinaNet *)
(* losses (src/src/losses.py).                                             *)
(*                                                                         *)
(* Numbers.  Rationals are pairs <<n, d>> in lowest terms with d > 0.      *)
(* A classification loss is a real of the form a*ln2 + b*ln3 with a, b     *)
(* rational, kept as the record [ln2 |-> a, ln3 |-> b]; ln2 and ln3 are    *)
(* linearly independent over the rationals, so two such reals are equal    *)
(* exactly when their records are.  Logits are drawn from                  *)
(* {-ln3, 0, ln3}, written -1, 0, 1, whose sigmoids are 1/4, 1/2, 3/4.     *)
(* A box of the loss model is one coordinate (its centre on one axis).     *)
(* Anchor coordinates are rationals.                                       *)
(***************************************************************************)
EXTENDS Integers, Sequences, FiniteSets, TLC

VARIABLES alpha, gamma, smooth_l1_loss_beta,
          image, calc, clas_losses, bb_losses, count, results, pc,
          args, gen, grid_sizes, anchors, gpc

lossVars == <<alpha, gamma, smooth_l1_loss_beta, image, calc,
              clas_losses, bb_losses, count, results, pc>>
genVars == <<args, gen, grid_sizes, anchors, gpc>>
vars == <<lossVars, genVars>>

\* ------------------------------------------------------------------ bounds
NumAnchors == 2
NumClasses == 2
MaxGT == 1
MaxBatch == 3

\* ------------------------------------------------------- exact arithmetic
Abs(x) == IF x < 0 THEN -x ELSE x

RECURSIVE GCD(_, _)
GCD(a, b) == IF b = 0 THEN a ELSE GCD(b, a % b)

Rat(n, d) ==
    LET g == GCD(Abs(n), Abs(d))
        s == IF d < 0 THEN -1 ELSE 1
    IN  <<(s * n) \div g, (s * d) \div g>>

RInt(i) == <<i, 1>>
RAdd(a, b) == Rat(a[1] * b[2] + b[1] * a[2], a[2] * b[2])
RSub(a, b) == Rat(a[1] * b[2] - b[1] * a[2], a[2] * b[2])
RMul(a, b) == Rat(a[1] * b[1], a[2] * b[2])
RDiv(a, b) == Rat(a[1] * b[2], a[2] * b[1])
RLess(a, b) == a[1] * b[2] < b[1] * a[2]
RAbs(a) == <<Abs(a[1]), a[2]>>
RMax(a, b) == IF RLess(a, b) THEN b ELSE a

RECURSIVE RPow(_, _)
RPow(a, k) == IF k = 0 THEN RInt(1) ELSE RMul(a, RPow(a, k - 1))

\* a*ln2 + b*ln3
LogVal(a, b) == [ln2 |-> a, ln3 |-> b]
LZero == LogVal(RInt(0), RInt(0))
LAdd(x, y) == LogVal(RAdd(x.ln2, y.ln2), RAdd(x.ln3, y.ln3))
LScale(x, r) == LogVal(RMul(x.ln2, r), RMul(x.ln3, r))
LDiv(x, r) == LogVal(RDiv(x.ln2, r), RDiv(x.ln3, r))

\* ------------------------------------------------------------ focal_loss
\* torch.sigmoid on the logits -ln3, 0, ln3
Sigmoid(x) == CASE x = -1 -> <<1, 4>> [] x = 0 -> <<1, 2>> [] x = 1 -> <<3, 4>>

\* -ln(p) for p in {1/4, 1/2, 3/4}
NegLog(p) ==
    CASE p = <<1, 4>> -> LogVal(RInt(2), RInt(0))
      [] p = <<1, 2>> -> LogVal(RInt(1), RInt(0))
      [] p = <<3, 4>> -> LogVal(RInt(2), RInt(-1))

\* F.binary_cross_entropy_with_logits, one element, before weighting
BCEWithLogits(x, t) ==
    IF t = 1 THEN NegLog(Sigmoid(x)) ELSE NegLog(RSub(RInt(1), Sigmoid(x)))

\* weights = clas_tgt * (1 - ps) + (1 - clas_tgt) * ps, one element
FocusingTerm(x, t) ==
    RAdd(RMul(RInt(t), RSub(RInt(1), Sigmoid(x))),
         RMul(RInt(1 - t), Sigmoid(x)))

\* alphas = (1 - clas_tgt) * self.alpha + clas_tgt * (1 - self.alpha), one element
Alphas(t, a) ==
    RAdd(RMul(RInt(1 - t), a), RMul(RInt(t), RSub(RInt(1), a)))

\* weights.pow_(self.gamma).mul_(alphas), one element
Weights(x, t, a, g) == RMul(RPow(FocusingTerm(x, t), g), Alphas(t, a))

RECURSIVE SumRow(_, _, _, _, _)
SumRow(preds, tgts, a, g, c) ==
    IF c = 0 THEN LZero
    ELSE LAdd(SumRow(preds, tgts, a, g, c - 1),
              LScale(BCEWithLogits(preds[c], tgts[c]),
                     Weights(preds[c], tgts[c], a, g)))

RECURSIVE SumRows(_, _, _, _, _)
SumRows(clas_pred, clas_tgt, a, g, i) ==
    IF i = 0 THEN LZero
    ELSE LAdd(SumRows(clas_pred, clas_tgt, a, g, i - 1),
              SumRow(clas_pred[i], clas_tgt[i], a, g, Len(clas_pred[i])))

\* the alphas and weights tensors of focal_loss, one row per selected anchor
AlphasTensor(clas_tgt, a) ==
    [k \in 1..Len(clas_tgt) |->
        [c \in 1..Len(clas_tgt[k]) |-> Alphas(clas_tgt[k][c], a)]]

WeightsTensor(clas_pred, clas_tgt, a, g) ==
    [k \in 1..Len(clas_tgt) |->
        [c \in 1..Len(clas_tgt[k]) |->
            Weights(clas_pred[k][c], clas_tgt[k][c], a, g)]]

\* focal_loss: weighted binary cross entropy, reduction="sum"
focal_loss(clas_pred, clas_tgt, a, g) ==
    SumRows(clas_pred, clas_tgt, a, g, Len(clas_pred))

\* -------------------------------------------------------- smooth_l1_loss
Half == <<1, 2>>
BetaEps == <<1, 100000>>

SmoothL1Elem(input, target, beta) ==
    LET n == RAbs(RSub(input, target))
    IN  IF RLess(beta, BetaEps) THEN n
        ELSE IF RLess(n, beta)
             THEN RDiv(RMul(Half, RMul(n, n)), beta)
             ELSE RSub(n, RMul(Half, beta))

RECURSIVE SmoothL1Sum(_, _, _, _)
SmoothL1Sum(input, target, beta, i) ==
    IF i = 0 THEN RInt(0)
    ELSE RAdd(SmoothL1Sum(input, target, beta, i - 1),
              SmoothL1Elem(input[i], target[i], beta))

smooth_l1_loss(input, target, beta) ==
    SmoothL1Sum(input, target, beta, Len(input))

\* ------------------------------------------------------------- calc_loss
\* positions of the TRUE entries of a boolean mask, ascending: tensor[mask]
RECURSIVE MaskIdx(_, _)
MaskIdx(mask, i) ==
    IF i = 0 THEN <<>>
    ELSE IF mask[i] THEN Append(MaskIdx(mask, i - 1), i) ELSE MaskIdx(mask, i - 1)

MaskSelect(t, mask) ==
    LET idx == MaskIdx(mask, Len(mask)) IN [k \in 1..Len(idx) |-> t[idx[k]]]

\* tensor[index] with a tensor of 0-based indices: IndexError when out of range
InRange(t, idx) == \A k \in 1..Len(idx) : -Len(t) <= idx[k] /\ idx[k] < Len(t)
IndexSelect(t, idx) == [k \in 1..Len(idx) |-> t[(idx[k] % Len(t)) + 1]]

\* the foreground mask taken after the increment instead of before it
BBoxMaskShifted(matches) == [i \in 1..Len(matches) |-> matches[i] + 1 >= 0]
\* bbox_mask = matches >= 0
BBoxMask(matches) == [i \in 1..Len(matches) |-> matches[i] >= 0]

\* matches.add_(1)
AddOne(matches) == [i \in 1..Len(matches) |-> matches[i] + 1]

\* the classification mask with > in place of >=
ClasMaskStrict(matches) == [i \in 1..Len(matches) |-> matches[i] > 0]
\* clas_mask = matches >= 0, on the incremented matches
ClasMask(matches) == [i \in 1..Len(matches) |-> matches[i] >= 0]

\* bbox_mask.sum()
MaskSum(mask) == Len(MaskIdx(mask, Len(mask)))

\* torch.clamp(bbox_mask.sum(), min=1.0)
ClampMin1(n) == IF n < 1 THEN 1 ELSE n

\* clas_tgt + 1 with the background class 0 prepended
CatBackground(labels) == <<0>> \o [j \in 1..Len(labels) |-> labels[j] + 1]

\* F.one_hot(x, num_classes=width) raises on a class outside [0, width)
OneHotOk(x, width) == \A k \in 1..Len(x) : 0 <= x[k] /\ x[k] < width

\* the one-hot encoding without the background column dropped
OneHotKeepFirst(x, n_c) ==
    [k \in 1..Len(x) |-> [c \in 1..n_c |-> IF x[k] = c - 1 THEN 1 ELSE 0]]

\* F.one_hot(x, num_classes=n_c + 1)[:, 1:]
OneHotDropFirst(x, n_c) ==
    [k \in 1..Len(x) |-> [c \in 1..n_c |-> IF x[k] = c THEN 1 ELSE 0]]

\* utils.bbox_2_activ on one-coordinate boxes with unit-size anchors: the
\* centre offset of the ground-truth box relative to its anchor
bbox_2_activ(bbox_tgt, ancs) ==
    [k \in 1..Len(bbox_tgt) |-> RInt(bbox_tgt[k] - ancs[k])]

NoCalc == [raised |-> FALSE, matches |-> <<>>, bbox_mask |-> <<>>,
           clas_mask |-> <<>>, clas_pred |-> <<>>, clas_tgt |-> <<>>,
           alphas |-> <<>>, weights |-> <<>>,
           bb_loss |-> RInt(0), clas_loss |-> LZero,
           ret_clas |-> LZero, ret_bb |-> RInt(0)]

\* calc_loss: its locals when it returns or raises
calc_loss(img, a, g, beta) ==
    LET m0 == img.matcher_out
        bbox_mask == BBoxMask(m0)
        fg == MaskSelect(m0, bbox_mask)
        bbRaised == MaskSum(bbox_mask) # 0 /\ ~InRange(img.boxes, fg)
        bb_loss ==
            IF MaskSum(bbox_mask) # 0
            THEN smooth_l1_loss(
                     [k \in 1..Len(fg) |->
                         RInt(MaskSelect(img.bbox_pred, bbox_mask)[k])],
                     bbox_2_activ(IndexSelect(img.boxes, fg),
                                  MaskSelect(img.anchors, bbox_mask)),
                     beta)
            ELSE RInt(0)
        matches == AddOne(m0)
        clas_mask == ClasMask(matches)
        clas_pred == MaskSelect(img.clas_pred, clas_mask)
        cat == CatBackground(img.labels)
        sel == MaskSelect(matches, clas_mask)
        clsRaised == ~InRange(cat, sel)
                     \/ ~OneHotOk(IndexSelect(cat, sel), NumClasses + 1)
        clas_tgt == OneHotDropFirst(IndexSelect(cat, sel), NumClasses)
        clas_loss == focal_loss(clas_pred, clas_tgt, a, g)
        denom == RInt(ClampMin1(MaskSum(bbox_mask)))
    IN  IF bbRaised
        THEN [NoCalc EXCEPT !.raised = TRUE, !.matches = m0,
                            !.bbox_mask = bbox_mask]
        ELSE IF clsRaised
        THEN [NoCalc EXCEPT !.raised = TRUE, !.matches = matches,
                            !.bbox_mask = bbox_mask, !.clas_mask = clas_mask,
                            !.clas_pred = clas_pred, !.bb_loss = bb_loss]
        ELSE [raised |-> FALSE, matches |-> matches, bbox_mask |-> bbox_mask,
              clas_mask |-> clas_mask, clas_pred |-> clas_pred,
              clas_tgt |-> clas_tgt,
              alphas |-> AlphasTensor(clas_tgt, a),
              weights |-> WeightsTensor(clas_pred, clas_tgt, a, g),
              bb_loss |-> bb_loss,
              clas_loss |-> clas_loss,
              ret_clas |-> LDiv(clas_loss, denom),
              ret_bb |-> RDiv(bb_loss, denom)]

\* ---------------------------------------------------------------- inputs
AlphaValues == {<<1, 4>>, <<3, 4>>}
Gammas == {1, 2}
Betas == {<<0, 1>>, <<1, 9>>}

\* what the matcher may hand back: ignore, background, ground-truth indices,
\* and values outside its contract on both sides
MatchVals == (0 - 3)..MaxGT

ClsPred(k) ==
    [i \in 1..NumAnchors |-> [c \in 1..NumClasses |-> ((i + c + k) % 3) - 1]]
BoxPred(k) == [i \in 1..NumAnchors |-> k * i]
GTBoxes(n) == [j \in 1..n |-> 2 * j]
AnchorCentres == [i \in 1..NumAnchors |-> i]

LabelSeqs == UNION {[1..n -> 0..(NumClasses - 1)] : n \in 0..MaxGT}

Images ==
    {[matcher_out |-> m, labels |-> l, boxes |-> GTBoxes(Len(l)),
      clas_pred |-> ClsPred(k), bbox_pred |-> BoxPred(b),
      anchors |-> AnchorCentres] :
        m \in [1..NumAnchors -> MatchVals], l \in LabelSeqs,
        k \in 0..1, b \in {1}}

NoImage == [matcher_out |-> <<>>, labels |-> <<>>, boxes |-> <<>>,
            clas_pred |-> <<>>, bbox_pred |-> <<>>, anchors |-> <<>>]

\* the images of a batch: one ground-truth box of class 0, every anchor
\* background or matched to it
BatchImages ==
    {img \in Images :
        /\ img.labels = <<0>>
        /\ img.clas_pred = ClsPred(0)
        /\ img.bbox_pred = BoxPred(1)
        /\ \A i \in 1..NumAnchors : img.matcher_out[i] \in {0 - 1, 0}}

\* --------------------------------------------------------------- forward
\* clas_losses + clas_loss / max(1., count)
AccumulateClas(acc, loss, cnt) == LAdd(acc, LDiv(loss, RMax(RInt(1), RInt(cnt))))
\* bb_losses + bb_loss / max(1., count)
AccumulateBB(acc, loss, cnt) == RAdd(acc, RDiv(loss, RMax(RInt(1), RInt(cnt))))

\* RetinaNetLosses.__init__ with the values of config.py left open
InitLosses ==
    /\ alpha \in AlphaValues
    /\ gamma \in Gammas
    /\ smooth_l1_loss_beta \in Betas
    /\ image = NoImage
    /\ calc = NoCalc
    /\ clas_losses = LZero
    /\ bb_losses = RInt(0)
    /\ count = 0
    /\ results = <<>>

\* one call of calc_loss
CalcLoss(img) ==
    /\ pc = "call"
    /\ image' = img
    /\ calc' = calc_loss(img, alpha, gamma, smooth_l1_loss_beta)
    /\ pc' = IF calc'.raised THEN "raised" ELSE "returned"
    /\ UNCHANGED <<alpha, gamma, smooth_l1_loss_beta, clas_losses, bb_losses,
                   count, results, genVars>>

\* one iteration of the loop of forward over the batch
ForwardStep(img) ==
    /\ pc = "loop"
    /\ count < MaxBatch
    /\ image' = img
    /\ calc' = calc_loss(img, alpha, gamma, smooth_l1_loss_beta)
    /\ IF calc'.raised
       THEN /\ pc' = "raised"
            /\ UNCHANGED <<clas_losses, bb_losses, count, results>>
       ELSE /\ clas_losses' = AccumulateClas(clas_losses, calc'.ret_clas, count)
            /\ bb_losses' = AccumulateBB(bb_losses, calc'.ret_bb, count)
            /\ count' = count + 1
            /\ results' = Append(results, <<calc'.ret_clas, calc'.ret_bb>>)
            /\ pc' = "loop"
    /\ UNCHANGED <<alpha, gamma, smooth_l1_loss_beta, genVars>>

\* the batch is exhausted: forward returns the two accumulators
ForwardReturn ==
    /\ pc = "loop"
    /\ pc' = "returned"
    /\ UNCHANGED <<alpha, gamma, smooth_l1_loss_beta, image, calc, clas_losses,
                   bb_losses, count, results, genVars>>

\* ------------------------------------------------------ _broadcast_params
\* A sizes or aspect_ratios argument: kind "number" is a value that is no
\* list or tuple, "flat" a list of numbers (the empty list included),
\* "nested" a non-empty list of lists.
IsSeq(params) == params.kind # "number"
FirstIsSeq(params) == params.kind = "nested"

\* list * n
RECURSIVE Repeat(_, _)
Repeat(list, n) == IF n <= 0 THEN <<>> ELSE list \o Repeat(list, n - 1)

\* the broadcast without the check of the nested length
BroadcastNoLengthCheck(params, num_features) ==
    IF ~IsSeq(params) THEN [raised |-> TRUE, val |-> <<>>]
    ELSE IF Len(params.val) = 0 THEN [raised |-> TRUE, val |-> <<>>]
    ELSE IF ~FirstIsSeq(params)
         THEN [raised |-> FALSE, val |-> Repeat(<<params.val>>, num_features)]
    ELSE IF Len(params.val) = 1
         THEN [raised |-> FALSE, val |-> Repeat(params.val, num_features)]
    ELSE [raised |-> FALSE, val |-> params.val]

\* _broadcast_params: the per-level lists, or an AssertionError
_broadcast_params(params, num_features) ==
    IF ~IsSeq(params) THEN [raised |-> TRUE, val |-> <<>>]
    ELSE IF Len(params.val) = 0 THEN [raised |-> TRUE, val |-> <<>>]
    ELSE IF ~FirstIsSeq(params)
         THEN [raised |-> FALSE, val |-> Repeat(<<params.val>>, num_features)]
    ELSE IF Len(params.val) = 1
         THEN [raised |-> FALSE, val |-> Repeat(params.val, num_features)]
    ELSE IF Len(params.val) # num_features
         THEN [raised |-> TRUE, val |-> <<>>]
    ELSE [raised |-> FALSE, val |-> params.val]

\* ------------------------------------------------- generate_cell_anchors
\* math.sqrt on the rationals whose numerator and denominator are squares
ISqrt(n) == CHOOSE r \in 0..n : r * r = n
RSqrt(a) == <<ISqrt(a[1]), ISqrt(a[2])>>

\* one template: [x0, y0, x1, y1] for one size and one aspect ratio
CellAnchor(size, aspect_ratio) ==
    LET area == RMul(RInt(size), RInt(size))
        w == RSqrt(RDiv(area, aspect_ratio))
        h == RMul(aspect_ratio, w)
        two == RInt(2)
        neg(x) == RSub(RInt(0), x)
    IN  <<RDiv(neg(w), two), RDiv(neg(h), two), RDiv(w, two), RDiv(h, two)>>

\* for size in sizes: for aspect_ratio in aspect_ratios: anchors.append(...)
generate_cell_anchors(sizes, aspect_ratios) ==
    [k \in 1..(Len(sizes) * Len(aspect_ratios)) |->
        CellAnchor(sizes[((k - 1) \div Len(aspect_ratios)) + 1],
                   aspect_ratios[((k - 1) % Len(aspect_ratios)) + 1])]

\* zip(sizes, aspect_ratios) stops at the shorter list
MinLen(s, t) == IF Len(s) < Len(t) THEN Len(s) ELSE Len(t)

_calculate_anchors(sizes, aspect_ratios) ==
    [l \in 1..MinLen(sizes, aspect_ratios) |->
        generate_cell_anchors(sizes[l], aspect_ratios[l])]

\* ------------------------------------------------- _compute_grid_offsets
\* torch.arange(start, end, step): start, start + step, ... below end
RECURSIVE Arange(_, _, _)
Arange(start, end, step) ==
    IF RLess(start, end) THEN <<start>> \o Arange(RAdd(start, step), end, step)
    ELSE <<>>

ShiftsRange(size, stride, offset) ==
    Arange(RMul(offset, RInt(stride)), RInt(size * stride), RInt(stride))

\* the flattened meshgrid with the columns as the outer index
GridOffsetsColumnMajor(size, stride, offset) ==
    LET ys == ShiftsRange(size[1], stride, offset)
        xs == ShiftsRange(size[2], stride, offset)
    IN  [k \in 1..(Len(ys) * Len(xs)) |->
            <<xs[((k - 1) \div Len(ys)) + 1], ys[((k - 1) % Len(ys)) + 1]>>]

\* _compute_grid_offsets: the pairs (shift_x[k], shift_y[k]) of the flattened
\* meshgrid(shifts_y, shifts_x), size = (H, W)
_compute_grid_offsets(size, stride, offset) ==
    LET ys == ShiftsRange(size[1], stride, offset)
        xs == ShiftsRange(size[2], stride, offset)
    IN  [k \in 1..(Len(ys) * Len(xs)) |->
            <<xs[((k - 1) % Len(xs)) + 1], ys[((k - 1) \div Len(xs)) + 1]>>]

\* ---------------------------------------------------------- grid_anchors
\* shifts.view(-1, 1, 4) + base_anchors.view(1, -1, 4), reshaped to (-1, 4)
ShiftAnchors(shifts, base_anchors) ==
    LET A == Len(base_anchors)
    IN  [n \in 1..(Len(shifts) * A) |->
            LET s == shifts[((n - 1) \div A) + 1]
                b == base_anchors[((n - 1) % A) + 1]
            IN  <<RAdd(s[1], b[1]), RAdd(s[2], b[2]),
                  RAdd(s[1], b[3]), RAdd(s[2], b[4])>>]

Min3(a, b, c) == IF a <= b /\ a <= c THEN a ELSE IF b <= c THEN b ELSE c

\* one tensor per level of zip(grid_sizes, self.strides, buffers)
grid_anchors(g, sizes) ==
    [l \in 1..Min3(Len(sizes), Len(g.strides), Len(g.cell_anchors)) |->
        ShiftAnchors(_compute_grid_offsets(sizes[l], g.strides[l], g.offset),
                     g.cell_anchors[l])]

\* torch.cat(anchors_per_image)
RECURSIVE Cat(_, _)
Cat(tensors, l) == IF l = 0 THEN <<>> ELSE Cat(tensors, l - 1) \o tensors[l]

\* ------------------------------------------------- AnchorGenerator state
NoParam == [kind |-> "number", val |-> 0]
NoArgs == [sizes |-> NoParam, aspect_ratios |-> NoParam, strides |-> <<>>,
           offset |-> RInt(0)]
NoGen == [strides |-> <<>>, num_features |-> 0, sizes |-> <<>>,
          aspect_ratios |-> <<>>, offset |-> RInt(0), cell_anchors |-> <<>>]

InitGen ==
    /\ args = NoArgs
    /\ gen = NoGen
    /\ grid_sizes = <<>>
    /\ anchors = <<>>
    /\ gpc = "new"

\* AnchorGenerator.__init__
Construct(a) ==
    /\ gpc = "new"
    /\ args' = a
    /\ LET n == Len(a.strides)
           sz == _broadcast_params(a.sizes, n)
           ar == _broadcast_params(a.aspect_ratios, n)
           g0 == [NoGen EXCEPT !.strides = a.strides, !.num_features = n]
       IN  IF sz.raised
           THEN gen' = g0 /\ gpc' = "raised"
           ELSE IF ar.raised
           THEN gen' = [g0 EXCEPT !.sizes = sz.val] /\ gpc' = "raised"
           ELSE /\ gen' = [g0 EXCEPT !.sizes = sz.val,
                                     !.aspect_ratios = ar.val,
                                     !.offset = a.offset,
                                     !.cell_anchors =
                                         _calculate_anchors(sz.val, ar.val)]
                /\ gpc' = "ready"
    /\ UNCHANGED <<grid_sizes, anchors, lossVars>>

\* AnchorGenerator.forward on n images and feature maps of the given sizes
Forward(sizes, n) ==
    /\ gpc = "ready"
    /\ grid_sizes' = sizes
    /\ anchors' = [i \in 1..n |->
                      LET ancs == grid_anchors(gen, sizes)
                      IN  Cat(ancs, Len(ancs))]
    /\ UNCHANGED <<args, gen, gpc, lossVars>>

\* ------------------------------------------------ AnchorGenerator inputs
MaxLevels == 2
MaxGrid == 2
MaxImages == 2

RECURSIVE Pow2(_)
Pow2(k) == IF k = 0 THEN 1 ELSE 2 * Pow2(k - 1)

FlatParam(v) == [kind |-> "flat", val |-> v]
NestedParam(v) == [kind |-> "nested", val |-> v]
NumberParam(v) == [kind |-> "number", val |-> v]

NestedOver(inner) ==
    {NestedParam(v) : v \in UNION {[1..n -> inner] : n \in 1..(MaxLevels + 1)}}

SizeParams ==
    {NumberParam(32)}
    \cup {FlatParam(v) : v \in {<<>>, <<4>>, <<32>>, <<0>>, <<0 - 4>>, <<4, 8>>}}
    \cup NestedOver({<<4>>, <<4, 8>>})

RatioParams ==
    {FlatParam(v) : v \in {<<RInt(1)>>, <<RInt(1), RInt(4)>>, <<Rat(1, 4)>>}}
    \cup NestedOver({<<RInt(1)>>})

StrideLists == {[l \in 1..n |-> 16 * Pow2(l - 1)] : n \in 1..MaxLevels}
Offsets == {RInt(0), Rat(1, 2)}

ArgSets ==
    [sizes : SizeParams, aspect_ratios : RatioParams, strides : StrideLists,
     offset : Offsets]

CeilDiv(a, b) == (a + b - 1) \div b

\* the feature maps of a pyramid whose first level is H x W
GridSizes(n) ==
    {[l \in 1..n |-> <<CeilDiv(hw[1], Pow2(l - 1)), CeilDiv(hw[2], Pow2(l - 1))>>] :
        hw \in (1..MaxGrid) \X (1..MaxGrid)}

\* -------------------------------------------------------- specifications
FixedLosses ==
    /\ alpha = <<1, 4>>
    /\ gamma = 2
    /\ smooth_l1_loss_beta = <<1, 9>>
    /\ image = NoImage
    /\ calc = NoCalc
    /\ clas_losses = LZero
    /\ bb_losses = RInt(0)
    /\ count = 0
    /\ results = <<>>

InitCalc == InitLosses /\ pc = "call" /\ InitGen
NextCalc == \E img \in Images : CalcLoss(img)
SpecCalc == InitCalc /\ [][NextCalc]_vars

InitForward == InitLosses /\ pc = "loop" /\ InitGen
NextForward == (\E img \in BatchImages : ForwardStep(img)) \/ ForwardReturn
SpecForward == InitForward /\ [][NextForward]_vars

InitAnchors == FixedLosses /\ pc = "call" /\ InitGen
NextAnchors ==
    \/ \E a \in ArgSets : Construct(a)
    \/ \E sizes \in GridSizes(gen.num_features), n \in 1..MaxImages :
           Forward(sizes, n)
SpecAnchors == InitAnchors /\ [][NextAnchors]_vars

\* ================================================================ claims
RECURSIVE LSum(_, _)
LSum(rs, i) == IF i = 0 THEN LZero ELSE LAdd(LSum(rs, i - 1), rs[i][1])

RECURSIVE RSum(_, _)
RSum(rs, i) == IF i = 0 THEN RInt(0) ELSE RAdd(RSum(rs, i - 1), rs[i][2])

\* the two accumulators of forward after the first i images of rs
RECURSIVE ForwardFold(_, _)
ForwardFold(rs, i) ==
    IF i = 0 THEN <<LZero, RInt(0)>>
    ELSE LET acc == ForwardFold(rs, i - 1)
         IN  <<AccumulateClas(acc[1], rs[i][1], i - 1),
               AccumulateBB(acc[2], rs[i][2], i - 1)>>

Perms(n) == {f \in [1..n -> 1..n] : \A i, j \in 1..n : f[i] = f[j] => i = j}

\* the number of anchors the matcher reports as foreground
NumForeground == Cardinality({i \in 1..NumAnchors : image.matcher_out[i] >= 0})
ValidMatch(m) == m \in {0 - 2, 0 - 1} \/ (0 <= m /\ m < Len(image.labels))
AllValid == \A i \in 1..NumAnchors : ValidMatch(image.matcher_out[i])

\* C1: when forward returns for a batch of n >= 1 images, each returned loss
\* is the arithmetic mean (L_0 + ... + L_{n-1}) / n of the per-image losses
\* calc_loss returned.
C1_BatchMean ==
    (pc = "returned" /\ count >= 1) =>
        /\ clas_losses = LDiv(LSum(results, count), RInt(count))
        /\ bb_losses = RDiv(RSum(results, count), RInt(count))

\* C2: when calc_loss returns, both losses are the raw sums divided by
\* max(1, F), F the number of anchors with matcher value >= 0 (counted on the
\* matcher's values, before the increment); with F = 0 the regression loss
\* is 0 and the classification loss is the raw focal sum.
C2_NormalisedByForeground ==
    pc = "returned" =>
        LET d == RInt(IF NumForeground >= 1 THEN NumForeground ELSE 1)
        IN  /\ RLess(RInt(0), d)
            /\ calc.ret_clas = LDiv(calc.clas_loss, d)
            /\ calc.ret_bb = RDiv(calc.bb_loss, d)
            /\ NumForeground = 0 =>
                   /\ calc.ret_bb = RInt(0)
                   /\ calc.ret_clas = calc.clas_loss

C2_Witness ==
    /\ pc = "returned"
    /\ NumForeground = 0
    /\ calc.clas_loss # LZero
    /\ calc.ret_clas = calc.clas_loss

\* C5: when calc_loss returns, the k-th anchor selected for classification
\* has the all-zero target if it is background, and the one-hot target with
\* its 1 at the label of its ground-truth box if it is foreground.
C5_OneHotTargets ==
    pc = "returned" =>
        LET sel == MaskIdx([i \in 1..NumAnchors |-> image.matcher_out[i] >= 0 - 1],
                           NumAnchors)
        IN  /\ Len(calc.clas_tgt) = Len(sel)
            /\ \A k \in 1..Len(sel) :
                   LET m == image.matcher_out[sel[k]]
                   IN  /\ m = 0 - 1 =>
                              calc.clas_tgt[k] = [c \in 1..NumClasses |-> 0]
                       /\ m >= 0 =>
                              calc.clas_tgt[k] =
                                  [c \in 1..NumClasses |->
                                      IF c - 1 = image.labels[m + 1] THEN 1 ELSE 0]

C5_Witness ==
    /\ pc = "returned"
    /\ \E i, j \in 1..NumAnchors :
           /\ image.matcher_out[i] = 0 - 1
           /\ image.matcher_out[j] = 0
           /\ image.labels[1] = NumClasses - 1
    /\ \E k \in 1..Len(calc.clas_tgt) : calc.clas_tgt[k][NumClasses] = 1

\* C6: when calc_loss returns, the class-balance factor of every element is
\* alpha where the target is 1 and 1 - alpha where it is 0, and the weight is
\* that factor times the focusing term raised to gamma.
C6_AlphaOnPositives ==
    pc = "returned" =>
        \A k \in 1..Len(calc.clas_tgt) : \A c \in 1..NumClasses :
            LET t == calc.clas_tgt[k][c]
                f == IF t = 1 THEN alpha ELSE RSub(RInt(1), alpha)
            IN  /\ calc.alphas[k][c] = f
                /\ calc.weights[k][c] =
                       RMul(RPow(FocusingTerm(calc.clas_pred[k][c], t), gamma), f)

\* C7: when forward returns, processing the images of the batch in any other
\* order gives the same two losses.
C7_OrderIndependent ==
    pc = "returned" =>
        \A f \in Perms(count) :
            ForwardFold([i \in 1..count |-> results[f[i]]], count)
                = <<clas_losses, bb_losses>>

\* C9: calc_loss returns losses only if every value of the matcher is the
\* background sentinel, the ignore sentinel or an index of a ground-truth box.
C9_InvalidMatchRaises ==
    pc = "returned" => AllValid

\* the image with the predictions of anchor i replaced by others
PerturbClas(img, i) ==
    {[img EXCEPT !.clas_pred[i] = [c \in 1..NumClasses |-> v]] : v \in {0 - 1, 0, 1}}
PerturbBBox(img, i) ==
    {[img EXCEPT !.bbox_pred[i] = v] : v \in 0..3}
Returned(img) == calc_loss(img, alpha, gamma, smooth_l1_loss_beta)

\* C10: when calc_loss returns on matcher values that are sentinels or
\* ground-truth indices, the regression branch selects exactly the
\* foreground anchors and the classification branch exactly the background
\* and foreground anchors; the predictions of an ignore anchor change neither
\* loss, the box prediction of a background anchor does not change the
\* regression loss, and every selected anchor adds to the classification sum.
C10_BranchSelection ==
    (pc = "returned" /\ AllValid) =>
        /\ \A i \in 1..NumAnchors :
               LET m == image.matcher_out[i]
               IN  /\ calc.bbox_mask[i] <=> m >= 0
                   /\ calc.clas_mask[i] <=> (m = 0 - 1 \/ m >= 0)
                   /\ m = 0 - 2 =>
                          /\ \A img \in PerturbClas(image, i) :
                                 Returned(img).ret_clas = calc.ret_clas
                          /\ \A img \in PerturbBBox(image, i) :
                                 Returned(img).ret_bb = calc.ret_bb
                   /\ m = 0 - 1 =>
                          /\ \A img \in PerturbBBox(image, i) :
                                 Returned(img).ret_bb = calc.ret_bb
                          /\ \E img \in PerturbClas(image, i) :
                                 Returned(img).ret_clas # calc.ret_clas
        /\ Len(calc.clas_pred) =
               Cardinality({i \in 1..NumAnchors : image.matcher_out[i] >= 0 - 1})

C10_Witness ==
    /\ pc = "returned"
    /\ AllValid
    /\ \E i, j \in 1..NumAnchors :
           /\ image.matcher_out[i] = 0 - 2
           /\ image.matcher_out[j] = 0 - 1
    /\ Len(calc.clas_pred) = NumAnchors - 1

\* ------------------------------------------------ claims on the anchors
NumTemplates(l) == Len(gen.sizes[l]) * Len(gen.aspect_ratios[l])
LevelLen(l) == grid_sizes[l][1] * grid_sizes[l][2] * NumTemplates(l)

RECURSIVE LevelStart(_)
LevelStart(l) == IF l <= 1 THEN 0 ELSE LevelStart(l - 1) + LevelLen(l - 1)

Translate(b, dx, dy) ==
    <<RAdd(b[1], dx), RAdd(b[2], dy), RAdd(b[3], dx), RAdd(b[4], dy)>>

Box(x0, y0, x1, y1) == <<RInt(x0), RInt(y0), RInt(x1), RInt(y1)>>

ExampleArgs ==
    [sizes |-> FlatParam(<<32>>), aspect_ratios |-> FlatParam(<<RInt(1)>>),
     strides |-> <<16>>, offset |-> Rat(1, 2)]

\* C3: after forward, every image's anchors have length sum of H_l*W_l*A_l,
\* the levels in ascending order, and within level l the box at index
\* (y*W + x)*A + a is template a translated by ((f + x)*S, (f + y)*S); the
\* 2x2 example gives centres (8,8), (24,8), (8,24), (24,24).
C3_GridLayout ==
    (gpc = "ready" /\ anchors # <<>>) =>
        /\ \A i \in 1..Len(anchors) :
               /\ Len(anchors[i]) = LevelStart(gen.num_features + 1)
               /\ \A l \in 1..gen.num_features :
                      LET H == grid_sizes[l][1]
                          W == grid_sizes[l][2]
                          A == NumTemplates(l)
                          S == RInt(gen.strides[l])
                      IN  /\ Len(gen.cell_anchors[l]) = A
                          /\ \A y \in 0..(H - 1), x \in 0..(W - 1), a \in 0..(A - 1) :
                                 anchors[i][LevelStart(l) + (y * W + x) * A + a + 1]
                                     = Translate(gen.cell_anchors[l][a + 1],
                                           RMul(RAdd(gen.offset, RInt(x)), S),
                                           RMul(RAdd(gen.offset, RInt(y)), S))
        /\ (args = ExampleArgs /\ grid_sizes = << <<2, 2>> >>) =>
               anchors[1] = <<Box(0 - 8, 0 - 8, 24, 24), Box(8, 0 - 8, 40, 24),
                              Box(0 - 8, 8, 24, 40), Box(8, 8, 40, 40)>>

C3_Witness ==
    /\ gpc = "ready"
    /\ gen.num_features = 2
    /\ grid_sizes = << <<2, 2>>, <<1, 1>> >>
    /\ NumTemplates(1) = 2
    /\ gen.offset = Rat(1, 2)
    /\ Len(anchors) = 2
    /\ Len(anchors[2]) = 10

\* what a sizes or aspect_ratios argument must become for N levels
BroadcastExpected(params, N) ==
    IF params.kind = "flat" /\ params.val # <<>>
    THEN [raised |-> FALSE, val |-> [l \in 1..N |-> params.val]]
    ELSE IF params.kind = "nested" /\ Len(params.val) = 1
    THEN [raised |-> FALSE, val |-> [l \in 1..N |-> params.val[1]]]
    ELSE IF params.kind = "nested" /\ Len(params.val) = N
    THEN [raised |-> FALSE, val |-> params.val]
    ELSE [raised |-> TRUE, val |-> <<>>]

\* passing the single list explicitly repeated N times
ExplicitlyRepeated(params, N) ==
    IF params.kind = "flat"
    THEN NestedParam([l \in 1..N |-> params.val])
    ELSE NestedParam([l \in 1..N |-> params.val[1]])

IsSingleList(params) ==
    \/ params.kind = "flat" /\ params.val # <<>>
    \/ params.kind = "nested" /\ Len(params.val) = 1

\* C4: once the generator is constructed for N levels, self.sizes and
\* self.aspect_ratios are exactly N per-level lists: a single list repeated
\* N times (the same as that list passed explicitly repeated), a nested list
\* of length N unmodified; a nested list of another length, an empty list or
\* a value that is no list makes the construction fail.
C4_Broadcast ==
    gpc # "new" =>
        LET N == Len(args.strides)
            es == BroadcastExpected(args.sizes, N)
            er == BroadcastExpected(args.aspect_ratios, N)
        IN  /\ gpc = "raised" <=> (es.raised \/ er.raised)
            /\ ~es.raised =>
                   /\ gen.sizes = es.val
                   /\ Len(gen.sizes) = N
                   /\ IsSingleList(args.sizes) =>
                          _broadcast_params(ExplicitlyRepeated(args.sizes, N), N)
                              = [raised |-> FALSE, val |-> gen.sizes]
            /\ gpc = "ready" =>
                   /\ gen.aspect_ratios = er.val
                   /\ Len(gen.aspect_ratios) = N
                   /\ IsSingleList(args.aspect_ratios) =>
                          _broadcast_params(
                              ExplicitlyRepeated(args.aspect_ratios, N), N)
                              = [raised |-> FALSE, val |-> gen.aspect_ratios]

C4_Witness ==
    /\ gpc = "ready"
    /\ Len(args.strides) = 2
    /\ args.sizes = FlatParam(<<4, 8>>)
    /\ args.aspect_ratios.kind = "nested"
    /\ Len(args.aspect_ratios.val) = 2
    /\ gen.sizes = << <<4, 8>>, <<4, 8>> >>

HasNonPositiveSize(params) ==
    \/ params.kind = "number" /\ params.val <= 0
    \/ params.kind = "flat" /\ \E k \in 1..Len(params.val) : params.val[k] <= 0
    \/ params.kind = "nested" /\
           \E l \in 1..Len(params.val) :
               \E k \in 1..Len(params.val[l]) : params.val[l][k] <= 0

\* C8: a generator whose sizes contain a value <= 0 is never constructed (the
\* construction fails), and every template of a constructed generator has
\* positive width and height.
C8_NonPositiveSizeRaises ==
    /\ (gpc # "new" /\ HasNonPositiveSize(args.sizes)) => gpc = "raised"
    /\ gpc = "ready" =>
           \A l \in 1..Len(gen.cell_anchors) :
               \A a \in 1..Len(gen.cell_anchors[l]) :
                   LET b == gen.cell_anchors[l][a]
                   IN  RLess(b[1], b[3]) /\ RLess(b[2], b[4])

====
